---- MODULE Spec2Model ----
(***************************************************************************)
(* Model of two components of rasa:                                        *)
(*   - DefaultV1RecipeValidator                                            *)
(*       (rasa/graph_components/validators/default_recipe_validator.py)    *)
(*   - RasaYAMLReader (rasa/nlu/training_data/formats/rasa_yaml.py)        *)
(* A python dict is a function whose DOMAIN is its key set, a python list  *)
(* a sequence, a python set a set.  An optional value is a sequence of     *)
(* length 0 or 1.                                                          *)
(***************************************************************************)
EXTENDS Integers, Sequences, FiniteSets, TLC

VARIABLES
    graph_schema,            \* self._graph_schema: the nodes, in dict order
    component_types,         \* self._component_types
    policy_schema_nodes,     \* self._policy_schema_nodes
    featurizers_compatible,  \* verdict of the featurizer compatibility check
    pc,                      \* "idle" between calls, "done" when a call ended
    importer,                \* argument of the call that ended, <<>> if none
    requested,               \* getters called on the importer, in call order
    warnings,                \* advisories emitted by that call, in order
    error,                   \* exception that ended that call, or "none"
    result,                  \* value returned by that call, <<>> if none
    training_examples,       \* RasaYAMLReader: self.training_examples
    entity_synonyms,         \* self.entity_synonyms
    regex_features,          \* self.regex_features
    lookup_tables,           \* self.lookup_tables
    rpc,                     \* "idle", "reading", "returned" or "raised"
    yaml_keys,               \* top-level keys of the document being read
    nlu_data,                \* items of its "nlu" list iterated so far
    reader_warnings,         \* advisories emitted by this reads call, in order
    reader_error,            \* exception that ended it, or "none"
    reader_result,           \* the TrainingData it returned, <<>> if none
    earlier,                 \* the TrainingData a caller holds from an earlier
                             \* call, <<>> if none: whether it has entries,
                             \* and whether its lists are the list objects
                             \* the reader's fields refer to
    dpc,                     \* is_yaml_nlu_file: "idle" or "done"
    file,                    \* the file of the call that ended, <<>> if none
    file_read,               \* whether that call read the file
    logged,                  \* whether that call logged an error
    detect_error,            \* exception that left that call, or "none"
    detect_result            \* value returned by that call, <<>> if none

vvars == <<graph_schema, component_types, policy_schema_nodes,
           featurizers_compatible, pc, importer, requested, warnings, error,
           result>>

rvars == <<training_examples, entity_synonyms, regex_features, lookup_tables,
           rpc, yaml_keys, nlu_data, reader_warnings, reader_error,
           reader_result, earlier>>

dvars == <<dpc, file, file_read, logged, detect_error, detect_result>>

vars == <<vvars, rvars, dvars>>

----------------------------------------------------------------------------
(* Bounds *)

MaxNodes == 3

MaxItems == 2

----------------------------------------------------------------------------
(* Generic helpers *)

EmptyDict == [k \in {} |-> 0]

\* dict.get(key, default)
Get(d, key, default) == IF key \in DOMAIN d THEN d[key] ELSE default

Range(s) == {s[i] : i \in DOMAIN s}

\* python truthiness of a list / dict
Truthy(c) == DOMAIN c # {}

Opt(cond, w) == IF cond THEN <<w>> ELSE <<>>

RECURSIVE Flatten(_)
Flatten(ss) == IF ss = <<>> THEN <<>> ELSE Head(ss) \o Flatten(Tail(ss))

----------------------------------------------------------------------------
(* Component types and their class hierarchy *)

TokenizerGraphComponent == {"WhitespaceTokenizer", "SpacyTokenizer"}

Featurizer2 == {"RegexFeaturizer"}

TRAINABLE_EXTRACTORS == {"MitieEntityExtractor", "CRFEntityExtractor",
                         "DIETClassifier"}

POLICY_CLASSSES == {"TEDPolicy", "MemoizationPolicy", "RulePolicy"}

PolicyGraphComponent == POLICY_CLASSSES

RulePolicyGraphComponent == "RulePolicy"

CRFEntityExtractorGraphComponent == "CRFEntityExtractor"

DIETClassifierGraphComponent == "DIETClassifier"

RegexFeaturizerGraphComponent == "RegexFeaturizer"

RegexEntityExtractorGraphComponent == "RegexEntityExtractor"

EntitySynonymMapperComponent == "EntitySynonymMapper"

ResponseSelectorGraphComponent == "ResponseSelector"

PATTERN == "pattern"

\* schema_node.uses.get_default_config()["priority"]
DefaultPriority(uses) ==
    CASE uses = "TEDPolicy" -> 1
      [] uses = "MemoizationPolicy" -> 3
      [] uses = "RulePolicy" -> 6

\* policy_node.uses.supported_data()
supported_data(uses) ==
    IF uses = "RulePolicy" THEN "ML_AND_RULE_DATA" ELSE "ML_DATA"

----------------------------------------------------------------------------
(* Advisories: rasa.shared.utils.io.raise_warning(message, docs) *)

Warning(kind) == [kind |-> kind, types |-> <<>>, typeset |-> {},
                  labels |-> {}, priority |-> 0]

Kinds(ws) == [i \in DOMAIN ws |-> ws[i].kind]

Count(ws, kind) == Cardinality({i \in DOMAIN ws : ws[i].kind = kind})

----------------------------------------------------------------------------
(* Inputs of validate: what the importer's getters return *)

\* TrainingData.entities: the labels annotated in the entity examples
entities(training_data) ==
    {training_data.entity_examples[i].entity :
        i \in DOMAIN training_data.entity_examples}

\* TrainingData.entity_roles_groups_used()
entity_roles_groups_used(training_data) ==
    \E i \in DOMAIN training_data.entity_examples :
        training_data.entity_examples[i].role # ""

\* StoryGraph.ordered_steps()
ordered_steps(story_graph) == story_graph.story_steps

----------------------------------------------------------------------------
(* DefaultV1RecipeValidator.__init__ *)

init_component_types(schema) == {schema[i].uses : i \in DOMAIN schema}

\* mutant: only the nodes of the rule policy are kept
init_rule_policy_schema_nodes(schema) ==
    SelectSeq(schema, LAMBDA node : node.uses = RulePolicyGraphComponent)

init_policy_schema_nodes(schema) ==
    SelectSeq(schema, LAMBDA node : node.uses \in PolicyGraphComponent)

----------------------------------------------------------------------------
(* NLU pass *)

types_of_tokenizer_schema_nodes ==
    LET toks == SelectSeq(graph_schema,
                          LAMBDA n : n.uses \in TokenizerGraphComponent)
    IN  [i \in DOMAIN toks |-> toks[i].uses]

\* mutant: counts the distinct tokenizer types instead of the tokenizer nodes
raise_if_more_than_one_tokenizer_type ==
    Cardinality(Range(types_of_tokenizer_schema_nodes)) > 1

\* mutant: raises for a single tokenizer already
raise_if_any_tokenizer ==
    Len(types_of_tokenizer_schema_nodes) >= 1

raise_if_more_than_one_tokenizer ==
    Len(types_of_tokenizer_schema_nodes) > 1

featurizers ==
    SelectSeq(graph_schema, LAMBDA n : n.uses \in Featurizer2)

\* Featurizer2.raise_if_featurizer_configs_are_not_compatible(configs):
\* a pairwise check, so it needs two configurations to fail
featurizer_configs_are_not_compatible(configs) ==
    Len(configs) > 1 /\ ~featurizers_compatible

raise_if_featurizers_are_not_compatible ==
    featurizer_configs_are_not_compatible(
        [i \in DOMAIN featurizers |-> featurizers[i].config])

\* mutant: warns from the third trainable extractor on
warn_of_more_than_two_extractors ==
    LET extractors_in_configuration ==
            component_types \cap TRAINABLE_EXTRACTORS
    IN  Opt(Cardinality(extractors_in_configuration) > 2,
            [Warning("competing_extractors")
                EXCEPT !.typeset = extractors_in_configuration])

\* mutant: the extractor nodes are counted, not their types
warn_of_competing_extractor_nodes ==
    LET extractors_in_configuration ==
            component_types \cap TRAINABLE_EXTRACTORS
        nodes == {i \in DOMAIN graph_schema :
                     graph_schema[i].uses \in TRAINABLE_EXTRACTORS}
    IN  Opt(Cardinality(nodes) > 1,
            [Warning("competing_extractors")
                EXCEPT !.typeset = extractors_in_configuration])

warn_of_competing_extractors ==
    LET extractors_in_configuration ==
            component_types \cap TRAINABLE_EXTRACTORS
    IN  Opt(Cardinality(extractors_in_configuration) > 1,
            [Warning("competing_extractors")
                EXCEPT !.typeset = extractors_in_configuration])

\* mutant: annotated entities and regex features compete whatever their names
warn_of_regex_extractor_with_any_labels(training_data) ==
    LET present_general_extractors ==
            component_types \cap TRAINABLE_EXTRACTORS
        has_general_extractors == Cardinality(present_general_extractors) > 0
        has_regex_extractor ==
            RegexEntityExtractorGraphComponent \in component_types
        regex_entity_types ==
            {training_data.regex_features[i].name :
                i \in DOMAIN training_data.regex_features}
        overlap_between_types ==
            entities(training_data) \cap regex_entity_types
        has_overlap ==
            entities(training_data) # {} /\ regex_entity_types # {}
    IN  Opt(has_general_extractors /\ has_regex_extractor /\ has_overlap,
            [Warning("regex_competition")
                EXCEPT !.typeset = present_general_extractors,
                       !.labels = overlap_between_types])

warn_of_competition_with_regex_extractor(training_data) ==
    LET present_general_extractors ==
            component_types \cap TRAINABLE_EXTRACTORS
        has_general_extractors == Cardinality(present_general_extractors) > 0
        has_regex_extractor ==
            RegexEntityExtractorGraphComponent \in component_types
        regex_entity_types ==
            {training_data.regex_features[i].name :
                i \in DOMAIN training_data.regex_features}
        overlap_between_types ==
            entities(training_data) \cap regex_entity_types
        has_overlap == Cardinality(overlap_between_types) > 0
    IN  Opt(has_general_extractors /\ has_regex_extractor /\ has_overlap,
            [Warning("regex_competition")
                EXCEPT !.typeset = present_general_extractors,
                       !.labels = overlap_between_types])

crf_schema_nodes ==
    SelectSeq(graph_schema,
              LAMBDA n : n.uses = CRFEntityExtractorGraphComponent)

\* mutant: a node without "features" counts with the extractor's default
\* feature lists, which contain "pattern"
has_pattern_feature_by_default ==
    \E i \in DOMAIN crf_schema_nodes :
        LET feature_lists == Get(crf_schema_nodes[i].config, "features",
                                 <<<<"low", "pattern">>>>)
        IN  \E j \in DOMAIN feature_lists : PATTERN \in Range(feature_lists[j])

has_pattern_feature ==
    \E i \in DOMAIN crf_schema_nodes :
        LET feature_lists == Get(crf_schema_nodes[i].config, "features", <<>>)
        IN  \E j \in DOMAIN feature_lists : PATTERN \in Range(feature_lists[j])

warn_if_lookup_tables_are_unused(training_data) ==
    IF ~Truthy(training_data.lookup_tables) THEN <<>>
    ELSE IF component_types \cap {CRFEntityExtractorGraphComponent,
                                  DIETClassifierGraphComponent} = {}
         THEN <<Warning("lookup_tables_without_feature_consumer")>>
    ELSE IF CRFEntityExtractorGraphComponent \in component_types
         THEN Opt(~has_pattern_feature,
                  Warning("lookup_tables_crf_without_pattern"))
    ELSE <<>>

\* mutant: roles and groups count as used by any trainable extractor
warn_if_data_is_unused_by_every_extractor(training_data) ==
    Opt(Truthy(training_data.response_examples)
            /\ ResponseSelectorGraphComponent \notin component_types,
        Warning("unused_response_examples"))
    \o Opt(Truthy(training_data.entity_examples)
            /\ component_types \cap TRAINABLE_EXTRACTORS = {},
        Warning("unused_entity_examples"))
    \o Opt(Truthy(training_data.entity_examples)
            /\ component_types \cap TRAINABLE_EXTRACTORS = {}
            /\ entity_roles_groups_used(training_data),
        Warning("unused_entity_roles_groups"))
    \o Opt(Truthy(training_data.regex_features)
            /\ component_types \cap {RegexFeaturizerGraphComponent,
                                     RegexEntityExtractorGraphComponent} = {},
        Warning("unused_regex_features"))
    \o Opt(Truthy(training_data.lookup_tables)
            /\ component_types \cap {RegexFeaturizerGraphComponent,
                                     RegexEntityExtractorGraphComponent} = {},
        Warning("unused_lookup_tables"))
    \o warn_if_lookup_tables_are_unused(training_data)
    \o Opt(Truthy(training_data.entity_synonyms)
            /\ EntitySynonymMapperComponent \notin component_types,
        Warning("unused_entity_synonyms"))

warn_if_some_training_data_is_unused(training_data) ==
    Opt(Truthy(training_data.response_examples)
            /\ ResponseSelectorGraphComponent \notin component_types,
        Warning("unused_response_examples"))
    \o Opt(Truthy(training_data.entity_examples)
            /\ component_types \cap TRAINABLE_EXTRACTORS = {},
        Warning("unused_entity_examples"))
    \o Opt(Truthy(training_data.entity_examples)
            /\ component_types \cap {DIETClassifierGraphComponent,
                                     CRFEntityExtractorGraphComponent} = {}
            /\ entity_roles_groups_used(training_data),
        Warning("unused_entity_roles_groups"))
    \o Opt(Truthy(training_data.regex_features)
            /\ component_types \cap {RegexFeaturizerGraphComponent,
                                     RegexEntityExtractorGraphComponent} = {},
        Warning("unused_regex_features"))
    \o Opt(Truthy(training_data.lookup_tables)
            /\ component_types \cap {RegexFeaturizerGraphComponent,
                                     RegexEntityExtractorGraphComponent} = {},
        Warning("unused_lookup_tables"))
    \o warn_if_lookup_tables_are_unused(training_data)
    \o Opt(Truthy(training_data.entity_synonyms)
            /\ EntitySynonymMapperComponent \notin component_types,
        Warning("unused_entity_synonyms"))

\* _validate_nlu: the exception it raises ("none" if it returns) and the
\* advisories it emitted until then
validate_nlu(training_data) ==
    IF raise_if_more_than_one_tokenizer
    THEN [error |-> "InvalidConfigException", warnings |-> <<>>]
    ELSE IF raise_if_featurizers_are_not_compatible
    THEN [error |-> "InvalidConfigException", warnings |-> <<>>]
    ELSE [error |-> "none",
          warnings |->
              warn_of_competing_extractors
              \o warn_of_competition_with_regex_extractor(training_data)
              \o warn_if_some_training_data_is_unused(training_data)]

----------------------------------------------------------------------------
(* Core pass *)

warn_if_no_rule_policy_is_contained ==
    Opt(~\E i \in DOMAIN policy_schema_nodes :
            policy_schema_nodes[i].uses = RulePolicyGraphComponent,
        Warning("no_rule_policy"))

contains_rule_policy ==
    \E i \in DOMAIN graph_schema :
        graph_schema[i].uses = RulePolicyGraphComponent

\* mutant: is content with any policy instead of the rule policy
raise_if_form_names_but_no_policy_given(domain) ==
    /\ Truthy(domain.form_names)
    /\ ~\E i \in DOMAIN graph_schema :
            graph_schema[i].uses \in PolicyGraphComponent

raise_if_domain_contains_form_names_but_no_rule_policy_given(domain) ==
    Truthy(domain.form_names) /\ ~contains_rule_policy

\* RulePolicyGraphComponent.raise_if_incompatible_with_domain(config, domain)
rule_policy_is_incompatible_with_domain(config, domain) ==
    ~domain.rule_policy_compatible

raise_if_a_rule_policy_is_incompatible_with_domain(domain) ==
    \E i \in DOMAIN graph_schema :
        /\ graph_schema[i].uses = RulePolicyGraphComponent
        /\ rule_policy_is_incompatible_with_domain(graph_schema[i].config,
                                                    domain)

priority_of(schema_node) ==
    Get(schema_node.config, "priority", DefaultPriority(schema_node.uses))

\* the keys of priority_dict, in insertion order
RECURSIVE priority_keys(_, _)
priority_keys(nodes, seen) ==
    IF nodes = <<>> THEN <<>>
    ELSE LET k == priority_of(Head(nodes))
         IN  IF k \in seen THEN priority_keys(Tail(nodes), seen)
             ELSE <<k>> \o priority_keys(Tail(nodes), seen \cup {k})

\* mutant: groups the policies by their configured priority only and takes
\* every policy without one as priority 1
priority_dict_ignoring_defaults(k) ==
    LET group == SelectSeq(policy_schema_nodes,
                           LAMBDA n : Get(n.config, "priority", 1) = k)
    IN  [i \in DOMAIN group |-> group[i].uses]

\* priority_dict[k]
priority_dict(k) ==
    LET group == SelectSeq(policy_schema_nodes,
                           LAMBDA n : priority_of(n) = k)
    IN  [i \in DOMAIN group |-> group[i].uses]

warn_if_priorities_are_not_unique ==
    LET keys == priority_keys(policy_schema_nodes, {})
    IN  Flatten([i \in DOMAIN keys |->
            Opt(Len(priority_dict(keys[i])) > 1,
                [Warning("same_priority")
                    EXCEPT !.types = priority_dict(keys[i]),
                           !.priority = keys[i]])])

\* mutant: only the rule policy without rule data is reported
warn_if_rule_based_data_is_missing(story_graph) ==
    LET consuming_rule_data ==
            \E i \in DOMAIN policy_schema_nodes :
                supported_data(policy_schema_nodes[i].uses)
                    \in {"RULE_DATA", "ML_AND_RULE_DATA"}
        steps == ordered_steps(story_graph)
        contains_rule_tracker == \E i \in DOMAIN steps : steps[i].is_rule
    IN  IF consuming_rule_data /\ ~contains_rule_tracker
        THEN <<Warning("rule_policy_without_rule_data")>>
        ELSE <<>>

warn_if_rule_based_data_is_unused_or_missing(story_graph) ==
    LET consuming_rule_data ==
            \E i \in DOMAIN policy_schema_nodes :
                supported_data(policy_schema_nodes[i].uses)
                    \in {"RULE_DATA", "ML_AND_RULE_DATA"}
        steps == ordered_steps(story_graph)
        contains_rule_tracker == \E i \in DOMAIN steps : steps[i].is_rule
    IN  IF consuming_rule_data /\ ~contains_rule_tracker
        THEN <<Warning("rule_policy_without_rule_data")>>
        ELSE IF ~consuming_rule_data /\ contains_rule_tracker
        THEN <<Warning("rule_data_without_rule_policy")>>
        ELSE <<>>

\* mutant: the core pass goes on to its checks when there is no policy node
validate_core_without_return(story_graph, domain) ==
    LET no_policy ==
            Opt(~Truthy(policy_schema_nodes)
                    /\ Truthy(story_graph.story_steps),
                Warning("data_but_no_policy"))
    IN  IF raise_if_domain_contains_form_names_but_no_rule_policy_given(
               domain)
        THEN [error |-> "InvalidDomain",
              warnings |-> no_policy \o warn_if_no_rule_policy_is_contained]
        ELSE IF raise_if_a_rule_policy_is_incompatible_with_domain(domain)
        THEN [error |-> "InvalidDomain",
              warnings |-> no_policy \o warn_if_no_rule_policy_is_contained]
        ELSE [error |-> "none",
              warnings |->
                  no_policy
                  \o warn_if_no_rule_policy_is_contained
                  \o warn_if_priorities_are_not_unique
                  \o warn_if_rule_based_data_is_unused_or_missing(
                         story_graph)]

\* mutant: the forms are checked before the rule policy is missed
validate_core_raising_first(story_graph, domain) ==
    LET no_policy ==
            Opt(~Truthy(policy_schema_nodes)
                    /\ Truthy(story_graph.story_steps),
                Warning("data_but_no_policy"))
    IN  IF ~Truthy(policy_schema_nodes)
        THEN [error |-> "none", warnings |-> no_policy]
        ELSE IF raise_if_domain_contains_form_names_but_no_rule_policy_given(
                    domain)
        THEN [error |-> "InvalidDomain", warnings |-> no_policy]
        ELSE IF raise_if_a_rule_policy_is_incompatible_with_domain(domain)
        THEN [error |-> "InvalidDomain",
              warnings |-> no_policy \o warn_if_no_rule_policy_is_contained]
        ELSE [error |-> "none",
              warnings |->
                  no_policy
                  \o warn_if_no_rule_policy_is_contained
                  \o warn_if_priorities_are_not_unique
                  \o warn_if_rule_based_data_is_unused_or_missing(
                         story_graph)]

\* _validate_core: the exception it raises ("none" if it returns) and the
\* advisories it emitted until then
validate_core(story_graph, domain) ==
    LET no_policy ==
            Opt(~Truthy(policy_schema_nodes)
                    /\ Truthy(story_graph.story_steps),
                Warning("data_but_no_policy"))
    IN  IF ~Truthy(policy_schema_nodes)
        THEN [error |-> "none", warnings |-> no_policy]
        ELSE IF raise_if_domain_contains_form_names_but_no_rule_policy_given(
                    domain)
        THEN [error |-> "InvalidDomain",
              warnings |-> no_policy \o warn_if_no_rule_policy_is_contained]
        ELSE IF raise_if_a_rule_policy_is_incompatible_with_domain(domain)
        THEN [error |-> "InvalidDomain",
              warnings |-> no_policy \o warn_if_no_rule_policy_is_contained]
        ELSE [error |-> "none",
              warnings |->
                  no_policy
                  \o warn_if_no_rule_policy_is_contained
                  \o warn_if_priorities_are_not_unique
                  \o warn_if_rule_based_data_is_unused_or_missing(
                         story_graph)]

----------------------------------------------------------------------------
(* DefaultV1RecipeValidator.validate *)

\* mutant: the story graph and the domain are loaded before the NLU pass
validate_after_loading(imp) ==
    LET nlu == validate_nlu(imp.nlu_data)
        core == validate_core(imp.stories, imp.domain)
    IN  IF nlu.error # "none"
        THEN [error |-> nlu.error, warnings |-> nlu.warnings,
              requested |-> <<"get_nlu_data", "get_stories", "get_domain">>,
              result |-> <<>>]
        ELSE [error |-> core.error,
              warnings |-> nlu.warnings \o core.warnings,
              requested |-> <<"get_nlu_data", "get_stories", "get_domain">>,
              result |-> IF core.error = "none" THEN <<imp>> ELSE <<>>]

validate(imp) ==
    LET nlu == validate_nlu(imp.nlu_data)
        core == validate_core(imp.stories, imp.domain)
    IN  IF nlu.error # "none"
        THEN [error |-> nlu.error, warnings |-> nlu.warnings,
              requested |-> <<"get_nlu_data">>, result |-> <<>>]
        ELSE [error |-> core.error,
              warnings |-> nlu.warnings \o core.warnings,
              requested |-> <<"get_nlu_data", "get_stories", "get_domain">>,
              result |-> IF core.error = "none" THEN <<imp>> ELSE <<>>]

----------------------------------------------------------------------------
(* The inputs the model draws from *)

SchemaNodes ==
    <<[uses |-> "WhitespaceTokenizer", config |-> EmptyDict],
      [uses |-> "SpacyTokenizer", config |-> EmptyDict],
      [uses |-> "RegexFeaturizer", config |-> EmptyDict],
      [uses |-> "MitieEntityExtractor", config |-> EmptyDict],
      [uses |-> "CRFEntityExtractor", config |-> EmptyDict],
      [uses |-> "CRFEntityExtractor",
       config |-> [features |-> <<<<"low">>, <<"low", "title">>>>]],
      [uses |-> "CRFEntityExtractor",
       config |-> [features |-> <<<<"low">>, <<"low", "pattern">>>>]],
      [uses |-> "DIETClassifier", config |-> EmptyDict],
      [uses |-> "RegexEntityExtractor", config |-> EmptyDict],
      [uses |-> "EntitySynonymMapper", config |-> EmptyDict],
      [uses |-> "ResponseSelector", config |-> EmptyDict],
      [uses |-> "TEDPolicy", config |-> EmptyDict],
      [uses |-> "TEDPolicy", config |-> [priority |-> 3]],
      [uses |-> "MemoizationPolicy", config |-> EmptyDict],
      [uses |-> "MemoizationPolicy", config |-> [priority |-> 1]],
      [uses |-> "RulePolicy", config |-> EmptyDict],
      [uses |-> "RulePolicy", config |-> [priority |-> 1]]>>

\* the schemas of at most max nodes; the validator looks at the nodes
\* through sets, counts and filters only, so one order per multiset is drawn
SortedSchemas(max) ==
    LET picks == UNION {[1..n -> DOMAIN SchemaNodes] : n \in 0..max}
        sorted == {p \in picks :
                      \A i \in DOMAIN p : i = 1 \/ p[i - 1] <= p[i]}
    IN  {[i \in DOMAIN p |-> SchemaNodes[p[i]]] : p \in sorted}

\* two tokenizer nodes, which the first check of the NLU pass rejects
TwoTokenizers == <<SchemaNodes[1], SchemaNodes[2]>>

\* the schemas of at most MaxNodes nodes, and the schemas with two
\* tokenizers in front of at most MaxNodes - 1 other nodes
Schemas ==
    SortedSchemas(MaxNodes)
    \cup {TwoTokenizers \o s : s \in SortedSchemas(MaxNodes - 1)}

TrainingDatas ==
    [response_examples : {<<>>, <<"faq/ask_name">>},
     entity_examples :
        {<<>>, <<[entity |-> "city", role |-> ""]>>,
         <<[entity |-> "city", role |-> "destination"]>>},
     regex_features :
        {<<>>, <<[name |-> "city", pattern |-> "[A-Z][a-z]+"]>>,
         <<[name |-> "zipcode", pattern |-> "[0-9]{5}"]>>},
     lookup_tables : {<<>>, <<[name |-> "city", elements |-> <<"Berlin">>]>>},
     entity_synonyms : {EmptyDict, [k \in {"NYC"} |-> "New York"]}]

StoryGraphs ==
    [story_steps : {<<>>, <<[is_rule |-> FALSE]>>,
                    <<[is_rule |-> FALSE], [is_rule |-> TRUE]>>}]

Domains ==
    [form_names : {<<>>, <<"booking_form">>}, rule_policy_compatible : BOOLEAN]

EmptyTrainingData ==
    [response_examples |-> <<>>, entity_examples |-> <<>>,
     regex_features |-> <<>>, lookup_tables |-> <<>>,
     entity_synonyms |-> EmptyDict]

FullTrainingData ==
    [response_examples |-> <<"faq/ask_name">>,
     entity_examples |-> <<[entity |-> "city", role |-> "destination"]>>,
     regex_features |-> <<[name |-> "city", pattern |-> "[A-Z][a-z]+"]>>,
     lookup_tables |-> <<[name |-> "city", elements |-> <<"Berlin">>]>>,
     entity_synonyms |-> [k \in {"NYC"} |-> "New York"]]

EmptyCoreData ==
    [stories |-> [story_steps |-> <<>>],
     domain |-> [form_names |-> <<>>, rule_policy_compatible |-> TRUE]]

\* what an importer can return: every training data with the empty core
\* data, and every story graph and domain with the empty and the full
\* training data
Importers ==
    {imp \in [nlu_data : TrainingDatas, stories : StoryGraphs,
              domain : Domains] :
        \/ imp.nlu_data \in {EmptyTrainingData, FullTrainingData}
        \/ [stories |-> imp.stories, domain |-> imp.domain]
               = EmptyCoreData}

----------------------------------------------------------------------------
(* The validator as a state machine *)

\* no call of is_yaml_nlu_file is made
DetectorAtRest ==
    /\ dpc = "idle"
    /\ file = <<>>
    /\ file_read = FALSE
    /\ logged = FALSE
    /\ detect_error = "none"
    /\ detect_result = <<>>

\* a reader on which reads was not called yet
ReaderAtRest ==
    /\ training_examples = <<>>
    /\ entity_synonyms = EmptyDict
    /\ regex_features = <<>>
    /\ lookup_tables = <<>>
    /\ rpc = "idle"
    /\ yaml_keys = <<>>
    /\ nlu_data = <<>>
    /\ reader_warnings = <<>>
    /\ reader_error = "none"
    /\ reader_result = <<>>
    /\ earlier = <<>>

Init ==
    /\ ReaderAtRest
    /\ DetectorAtRest
    /\ graph_schema \in Schemas
    /\ component_types = init_component_types(graph_schema)
    /\ policy_schema_nodes = init_policy_schema_nodes(graph_schema)
    /\ featurizers_compatible \in BOOLEAN
    /\ (Len(featurizers) < 2 => featurizers_compatible)
    /\ pc = "idle"
    /\ importer = <<>>
    /\ requested = <<>>
    /\ warnings = <<>>
    /\ error = "none"
    /\ result = <<>>

\* one call of validate(importer), from entry to its return or raise
Validate ==
    /\ pc = "idle"
    /\ \E imp \in Importers :
          LET run == validate(imp)
          IN  /\ importer' = <<imp>>
              /\ requested' = run.requested
              /\ warnings' = run.warnings
              /\ error' = run.error
              /\ result' = run.result
    /\ pc' = "done"
    /\ UNCHANGED <<graph_schema, component_types, policy_schema_nodes,
                   featurizers_compatible>>
    /\ UNCHANGED <<rvars, dvars>>

\* the caller takes the outcome; the validator is ready for the next call
Return ==
    /\ pc = "done"
    /\ pc' = "idle"
    /\ importer' = <<>>
    /\ requested' = <<>>
    /\ warnings' = <<>>
    /\ error' = "none"
    /\ result' = <<>>
    /\ UNCHANGED <<graph_schema, component_types, policy_schema_nodes,
                   featurizers_compatible>>
    /\ UNCHANGED <<rvars, dvars>>

Next ==
    \/ Validate
    \/ Return

Spec == Init /\ [][Next]_vars

----------------------------------------------------------------------------
(* What the claims speak about, stated on the inputs of the call *)

TheImporter == importer[1]

TokenizerNodeCount ==
    Cardinality({i \in DOMAIN graph_schema :
                    graph_schema[i].uses \in TokenizerGraphComponent})

HasPolicyNode ==
    \E i \in DOMAIN graph_schema : graph_schema[i].uses \in POLICY_CLASSSES

HasRulePolicyNode ==
    \E i \in DOMAIN graph_schema : graph_schema[i].uses = "RulePolicy"

DomainHasForms == Len(TheImporter.domain.form_names) > 0

ConfiguredTrainableExtractors ==
    {graph_schema[i].uses : i \in DOMAIN graph_schema} \cap
        {"MitieEntityExtractor", "CRFEntityExtractor", "DIETClassifier"}

ConflictingLabels ==
    {TheImporter.nlu_data.entity_examples[i].entity :
        i \in DOMAIN TheImporter.nlu_data.entity_examples}
    \cap {TheImporter.nlu_data.regex_features[i].name :
            i \in DOMAIN TheImporter.nlu_data.regex_features}

CRFNodes ==
    {i \in DOMAIN graph_schema : graph_schema[i].uses = "CRFEntityExtractor"}

\* node i is a CRF extractor with "pattern" in one of its feature lists
CRFNodeHasPattern(i) ==
    /\ "features" \in DOMAIN graph_schema[i].config
    /\ \E j \in DOMAIN graph_schema[i].config.features :
          \E c \in DOMAIN graph_schema[i].config.features[j] :
              graph_schema[i].config.features[j][c] = "pattern"

\* the effective priority of policy node i
EffectivePriority(i) ==
    IF "priority" \in DOMAIN graph_schema[i].config
    THEN graph_schema[i].config.priority
    ELSE DefaultPriority(graph_schema[i].uses)

PolicyNodes ==
    {i \in DOMAIN graph_schema : graph_schema[i].uses \in POLICY_CLASSSES}

PriorityGroup(k) == {i \in PolicyNodes : EffectivePriority(i) = k}

SamePriorityAdvisories(k) ==
    {w \in DOMAIN warnings :
        warnings[w].kind = "same_priority" /\ warnings[w].priority = k}

\* the advisory names exactly the policies of the group, one name per node
NamesGroup(w, group) ==
    /\ Len(warnings[w].types) = Cardinality(group)
    /\ \A t \in POLICY_CLASSSES :
          Cardinality({n \in DOMAIN warnings[w].types :
                          warnings[w].types[n] = t})
            = Cardinality({i \in group : graph_schema[i].uses = t})

----------------------------------------------------------------------------
(* Claims *)

\* C1: a call of validate on a schema with more than one tokenizer node (two
\* nodes of one tokenizer type count as two) ends in the configuration
\* error, whatever the importer returns.
C1_MoreThanOneTokenizerRaises ==
    (pc = "done" /\ TokenizerNodeCount > 1)
        => error = "InvalidConfigException"

C1_Witness ==
    /\ pc = "done"
    /\ \E i, j \in DOMAIN graph_schema :
          /\ i # j
          /\ graph_schema[i].uses = "WhitespaceTokenizer"
          /\ graph_schema[j].uses = "WhitespaceTokenizer"
    /\ Truthy(TheImporter.nlu_data.entity_examples)
    /\ error = "InvalidConfigException"

C3_RaisesOnlyInTheFourCases ==
    pc = "done" =>
        /\ error \in {"none", "InvalidConfigException", "InvalidDomain"}
        /\ error = "InvalidConfigException" =>
              \/ TokenizerNodeCount > 1
              \/ raise_if_featurizers_are_not_compatible
        /\ error = "InvalidDomain" =>
              \/ DomainHasForms /\ ~HasRulePolicyNode
              \/ HasRulePolicyNode
                    /\ ~TheImporter.domain.rule_policy_compatible
        /\ error = "none" => result = importer
        /\ error # "none" => result = <<>>

C3_Witness ==
    /\ pc = "done"
    /\ error = "none"
    /\ result = importer
    /\ Len(warnings) >= 3
    /\ HasPolicyNode
    /\ TokenizerNodeCount = 1

\* C4 as stated: a call of validate on a schema with two or more trainable
\* entity extractors and training data without conflicting labels returns
\* and emits exactly one advisory in total.
C4_ExactlyOneAdvisoryInTotal ==
    (pc = "done" /\ Cardinality(ConfiguredTrainableExtractors) >= 2
         /\ ConflictingLabels = {})
        => (error = "none" /\ Len(warnings) = 1)

\* C4 amended: a call of validate on a schema with two or more trainable
\* entity extractors and training data without conflicting labels, which the
\* NLU pass does not end in the configuration error, emits exactly one
\* competing-extractors advisory, as its first advisory, and no
\* regex-competition advisory.
C4_ExactlyOneCompetingExtractorsAdvisory ==
    (pc = "done" /\ Cardinality(ConfiguredTrainableExtractors) >= 2
         /\ ConflictingLabels = {} /\ error # "InvalidConfigException")
        => /\ Count(warnings, "competing_extractors") = 1
           /\ warnings[1].kind = "competing_extractors"
           /\ warnings[1].typeset = ConfiguredTrainableExtractors
           /\ Count(warnings, "regex_competition") = 0

C4_Witness ==
    /\ pc = "done"
    /\ Cardinality(ConfiguredTrainableExtractors) = 2
    /\ ConflictingLabels = {}
    /\ error = "none"
    /\ Count(warnings, "competing_extractors") = 1
    /\ Len(warnings) > 1

\* C5 as stated: with a lookup table in the training data, a CRF extractor
\* node none of whose feature lists contains "pattern" and no regex
\* featurizer in the schema, a call of validate emits the
\* lookup-tables-without-pattern advisory.
C5_LookupAdvisoryForSomeCRFNode ==
    (pc = "done" /\ Truthy(TheImporter.nlu_data.lookup_tables)
         /\ (\E i \in CRFNodes : ~CRFNodeHasPattern(i))
         /\ "RegexFeaturizer" \notin {graph_schema[i].uses :
                                        i \in DOMAIN graph_schema})
        => Count(warnings, "lookup_tables_crf_without_pattern") >= 1

\* C5 amended: with a lookup table in the training data, at least one CRF
\* extractor node, no CRF extractor node with "pattern" in a feature list
\* and no regex featurizer in the schema, a call of validate that the NLU
\* pass does not end in the configuration error emits the
\* lookup-tables-without-pattern advisory, once.
C5_LookupAdvisoryForAllCRFNodes ==
    (pc = "done" /\ Truthy(TheImporter.nlu_data.lookup_tables)
         /\ CRFNodes # {}
         /\ (\A i \in CRFNodes : ~CRFNodeHasPattern(i))
         /\ "RegexFeaturizer" \notin {graph_schema[i].uses :
                                        i \in DOMAIN graph_schema}
         /\ error # "InvalidConfigException")
        => Count(warnings, "lookup_tables_crf_without_pattern") = 1

C5_Witness ==
    /\ pc = "done"
    /\ Truthy(TheImporter.nlu_data.lookup_tables)
    /\ \E i \in CRFNodes : "features" \in DOMAIN graph_schema[i].config
    /\ \A i \in CRFNodes : ~CRFNodeHasPattern(i)
    /\ "RegexFeaturizer" \notin {graph_schema[i].uses :
                                   i \in DOMAIN graph_schema}
    /\ Count(warnings, "lookup_tables_crf_without_pattern") = 1

----------------------------------------------------------------------------
(* RasaYAMLReader: YAML values *)

KEY_NLU == "nlu"

KEY_INTENT == "intent"

KEY_INTENT_EXAMPLES == "examples"

KEY_INTENT_TEXT == "text"

KEY_SYNONYM == "synonym"

KEY_SYNONYM_EXAMPLES == "examples"

KEY_REGEX == "regex"

KEY_REGEX_EXAMPLES == "examples"

KEY_LOOKUP == "lookup"

KEY_LOOKUP_EXAMPLES == "examples"

\* A text is a sequence of pieces; NewLine is the line break, every other
\* piece is free of line breaks.  A value under "examples" is a text (str), a
\* list or null; a list element is a dict or a text.
NewLine == "\n"

Str(text) == [type |-> "str", text |-> text, items |-> <<>>]

List(items) == [type |-> "list", text |-> <<>>, items |-> items]

Null == [type |-> "null", text |-> <<>>, items |-> <<>>]

DictElement(fields) == [type |-> "dict", text |-> <<>>, fields |-> fields]

StrElement(text) == [type |-> "str", text |-> text, fields |-> EmptyDict]

\* isinstance(value, str) and isinstance(value, list)
IsStr(value) == value.type = "str"

IsList(value) == value.type = "list"

\* bool(value) of the value of an "examples" key or of a list element
IsTruthy(value) ==
    CASE value.type = "str" -> value.text # <<>>
      [] value.type = "list" -> value.items # <<>>
      [] value.type = "dict" -> DOMAIN value.fields # {}
      [] OTHER -> FALSE

\* mutant: only the lines that end in a line break
RECURSIVE lines_ended_by_a_break(_)
lines_ended_by_a_break(text) ==
    LET breaks == {i \in DOMAIN text : text[i] = NewLine}
    IN  IF breaks = {} THEN <<>>
        ELSE LET i == CHOOSE b \in breaks : \A c \in breaks : b <= c
             IN  <<SubSeq(text, 1, i - 1)>>
                 \o lines_ended_by_a_break(SubSeq(text, i + 1, Len(text)))

\* str.splitlines()
RECURSIVE splitlines(_)
splitlines(text) ==
    LET breaks == {i \in DOMAIN text : text[i] = NewLine}
    IN  IF text = <<>> THEN <<>>
        ELSE IF breaks = {} THEN <<text>>
        ELSE LET i == CHOOSE b \in breaks : \A c \in breaks : b <= c
             IN  <<SubSeq(text, 1, i - 1)>>
                 \o splitlines(SubSeq(text, i + 1, Len(text)))

\* Entity markup: the pieces of a text that annotate an entity, with the
\* annotated surface text, the entity label and the entity value.
Annotations ==
    [k \in {"[Berlin](city)", "[NYC]{city: New York}"} |->
        IF k = "[Berlin](city)"
        THEN [text |-> "Berlin", entity |-> "city", value |-> "Berlin"]
        ELSE [text |-> "NYC", entity |-> "city", value |-> "New York"]]

\* EntitiesParser.find_entities_in_training_example(example)
find_entities_in_training_example(example) ==
    LET marked == SelectSeq(example, LAMBDA piece : piece \in DOMAIN Annotations)
    IN  [i \in DOMAIN marked |-> Annotations[marked[i]]]

\* EntitiesParser.replace_entities(example)
replace_entities(example) ==
    [i \in DOMAIN example |->
        IF example[i] \in DOMAIN Annotations
        THEN Annotations[example[i]].text ELSE example[i]]

\* existing_synonyms[text] = value
Put(dict, key, value) ==
    [k \in DOMAIN dict \cup {key} |-> IF k = key THEN value ELSE dict[k]]

\* SynonymsParser.add_synonym(text, value, existing_synonyms)
add_synonym(text, value, existing_synonyms) ==
    Put(existing_synonyms, text, value)

\* SynonymsParser.add_synonyms_from_entities(example, entities, synonyms)
RECURSIVE add_synonyms_from_entities(_, _)
add_synonyms_from_entities(found, existing_synonyms) ==
    IF found = <<>> THEN existing_synonyms
    ELSE add_synonyms_from_entities(
             Tail(found),
             IF Head(found).text # Head(found).value
             THEN add_synonym(<<Head(found).text>>, Head(found).value,
                              existing_synonyms)
             ELSE existing_synonyms)

\* LookupTablesParser.add_item_to_lookup_tables(title, item, tables)
add_item_to_lookup_tables(title, item, tables) ==
    IF \E i \in DOMAIN tables : tables[i].name = title
    THEN [i \in DOMAIN tables |->
             IF tables[i].name = title
             THEN [tables[i] EXCEPT !.elements = Append(@, item)]
             ELSE tables[i]]
    ELSE Append(tables, [name |-> title, elements |-> <<item>>])

\* Message.build(plain_text, intent), then message.set("entities", entities)
\* when entities is not empty
Message(plain_text, intent, found) ==
    [text |-> plain_text, intent |-> intent, entities |-> found]

\* raise_warning(message, docs): the advisory and the key or tag it is about
ReaderWarning(kind, about) == [kind |-> kind, about |-> about]

----------------------------------------------------------------------------
(* RasaYAMLReader: the parsers.  A parser takes and gives the reader's      *)
(* fields, the advisories emitted so far and the exception raised, if any, *)
(* as a record.                                                            *)

Fields ==
    [training_examples |-> training_examples,
     entity_synonyms |-> entity_synonyms,
     regex_features |-> regex_features,
     lookup_tables |-> lookup_tables,
     warnings |-> reader_warnings,
     error |-> reader_error]

Warn(self, kind, about) ==
    [self EXCEPT !.warnings = Append(@, ReaderWarning(kind, about))]

\* _parse_training_examples(examples, intent): the exception it raises, the
\* advisory it emits and the (example, entities) pairs it returns
parse_training_examples(examples, intent) ==
    IF IsList(examples)
    THEN LET kept == SelectSeq(examples.items, IsTruthy)
         IN  IF \E i \in DOMAIN kept : kept[i].type # "dict"
             THEN [error |-> "AttributeError", warnings |-> <<>>,
                   results |-> <<>>]
             ELSE [error |-> "none", warnings |-> <<>>,
                   results |->
                       [i \in DOMAIN kept |->
                           LET example ==
                                   Get(kept[i].fields, KEY_INTENT_TEXT, <<>>)
                           IN  [example |-> example,
                                entities |->
                                    find_entities_in_training_example(
                                        example)]]]
    ELSE IF IsStr(examples)
    THEN LET example_strings == splitlines(examples.text)
         IN  [error |-> "none", warnings |-> <<>>,
              results |->
                  [i \in DOMAIN example_strings |->
                      [example |-> example_strings[i],
                       entities |->
                           find_entities_in_training_example(
                               example_strings[i])]]]
    ELSE [error |-> "none",
          warnings |-> <<ReaderWarning("unexpected_examples", KEY_INTENT)>>,
          results |-> <<>>]

\* the loop of _parse_intent over the parsed examples
RECURSIVE add_training_examples(_, _, _)
add_training_examples(self, results, intent) ==
    IF results = <<>> THEN self
    ELSE add_training_examples(
             [self EXCEPT
                 !.entity_synonyms =
                     add_synonyms_from_entities(Head(results).entities, @),
                 !.training_examples =
                     Append(@, Message(replace_entities(Head(results).example),
                                       intent, Head(results).entities))],
             Tail(results), intent)

\* _parse_intent(data)
parse_intent(self, data) ==
    LET intent == Get(data, KEY_INTENT, "")
        examples == Get(data, KEY_INTENT_EXAMPLES, Str(<<>>))
        parsed == parse_training_examples(examples, intent)
    IN  IF intent = "" THEN Warn(self, "empty_name", KEY_INTENT)
        ELSE IF parsed.error # "none"
        THEN [self EXCEPT !.error = parsed.error]
        ELSE add_training_examples(
                 [self EXCEPT !.warnings = @ \o parsed.warnings],
                 parsed.results, intent)

\* the loop of _parse_synonym over the lines
RECURSIVE add_synonyms(_, _, _)
add_synonyms(existing_synonyms, lines, synonym_name) ==
    IF lines = <<>> THEN existing_synonyms
    ELSE add_synonyms(add_synonym(Head(lines), synonym_name,
                                  existing_synonyms),
                      Tail(lines), synonym_name)

\* mutant: the empty name is reported, but the block is parsed nevertheless
parse_synonym_after_empty_name(self, nlu_item) ==
    LET synonym_name == nlu_item[KEY_SYNONYM]
        examples == Get(nlu_item, KEY_SYNONYM_EXAMPLES, Str(<<>>))
        warned == IF synonym_name = ""
                  THEN Warn(self, "empty_name", KEY_SYNONYM) ELSE self
    IN  IF ~IsTruthy(examples)
        THEN Warn(warned, "no_examples", KEY_SYNONYM)
        ELSE IF ~IsStr(examples)
        THEN Warn(warned, "unexpected_examples", KEY_SYNONYM)
        ELSE [warned EXCEPT
                 !.entity_synonyms =
                     add_synonyms(@, splitlines(examples.text), synonym_name)]

\* _parse_synonym(nlu_item)
parse_synonym(self, nlu_item) ==
    LET synonym_name == nlu_item[KEY_SYNONYM]
        examples == Get(nlu_item, KEY_SYNONYM_EXAMPLES, Str(<<>>))
    IN  IF synonym_name = "" THEN Warn(self, "empty_name", KEY_SYNONYM)
        ELSE IF ~IsTruthy(examples)
        THEN Warn(self, "no_examples", KEY_SYNONYM)
        ELSE IF ~IsStr(examples)
        THEN Warn(self, "unexpected_examples", KEY_SYNONYM)
        ELSE [self EXCEPT
                 !.entity_synonyms =
                     add_synonyms(@, splitlines(examples.text), synonym_name)]

\* _parse_regex(nlu_item)
parse_regex(self, nlu_item) ==
    LET regex_name == nlu_item[KEY_REGEX]
        examples == Get(nlu_item, KEY_REGEX_EXAMPLES, Str(<<>>))
        lines == splitlines(examples.text)
    IN  IF regex_name = "" THEN Warn(self, "empty_name", KEY_REGEX)
        ELSE IF ~IsTruthy(examples)
        THEN Warn(self, "no_examples", KEY_REGEX)
        ELSE IF ~IsStr(examples)
        THEN Warn(self, "unexpected_examples", KEY_REGEX)
        ELSE [self EXCEPT
                 !.regex_features =
                     @ \o [i \in DOMAIN lines |->
                              [name |-> regex_name, pattern |-> lines[i]]]]

\* the loop of _parse_lookup over the lines
RECURSIVE add_lookup_items(_, _, _)
add_lookup_items(tables, lines, lookup_item_name) ==
    IF lines = <<>> THEN tables
    ELSE add_lookup_items(
             add_item_to_lookup_tables(lookup_item_name, Head(lines), tables),
             Tail(lines), lookup_item_name)

\* _parse_lookup(nlu_item)
parse_lookup(self, nlu_item) ==
    LET lookup_item_name == nlu_item[KEY_LOOKUP]
        examples == Get(nlu_item, KEY_LOOKUP_EXAMPLES, Str(<<>>))
    IN  IF lookup_item_name = "" THEN Warn(self, "empty_name", KEY_LOOKUP)
        ELSE IF ~IsTruthy(examples)
        THEN Warn(self, "no_examples", KEY_LOOKUP)
        ELSE IF ~IsStr(examples)
        THEN Warn(self, "unexpected_examples", KEY_LOOKUP)
        ELSE [self EXCEPT
                 !.lookup_tables =
                     add_lookup_items(@, splitlines(examples.text),
                                      lookup_item_name)]

\* the loop of _parse_nlu over the keys of one item; an exception ends it
RECURSIVE parse_keys(_, _, _)
parse_keys(self, nlu_item, keys) ==
    IF keys = <<>> \/ self.error # "none" THEN self
    ELSE LET key == Head(keys)
             after ==
                 IF key = KEY_INTENT THEN parse_intent(self, nlu_item)
                 ELSE IF key = KEY_SYNONYM THEN parse_synonym(self, nlu_item)
                 ELSE IF key = KEY_REGEX THEN parse_regex(self, nlu_item)
                 ELSE IF key = KEY_LOOKUP THEN parse_lookup(self, nlu_item)
                 ELSE Warn(self, "unexpected_key", key)
         IN  parse_keys(after, nlu_item, Tail(keys))

\* one iteration of the loop of _parse_nlu over the items
parse_nlu_item(self, nlu_item) ==
    IF nlu_item.type # "dict" THEN Warn(self, "not_a_dictionary", "")
    ELSE parse_keys(self, nlu_item.fields, nlu_item.keys)

\* TrainingData(training_examples, entity_synonyms, regex_features,
\*              lookup_tables)
TrainingData(examples, synonyms, regexes, tables) ==
    [training_examples |-> examples, entity_synonyms |-> synonyms,
     regex_features |-> regexes, lookup_tables |-> tables]

\* the TrainingData of a document without entries
EmptyResult == TrainingData(<<>>, EmptyDict, <<>>, <<>>)

----------------------------------------------------------------------------
(* The documents the model draws from *)

TwoLines == <<"- hello", NewLine, "- hi">>

MarkedLine == <<"- fly to ", "[NYC]{city: New York}", NewLine>>

ExamplesValues ==
    {Str(TwoLines), Str(MarkedLine),
     List(<<DictElement([text |-> <<"in ", "[Berlin](city)">>]),
            DictElement(EmptyDict)>>),
     List(<<StrElement(<<"hello">>)>>),
     Null}

Tags == {KEY_INTENT, KEY_SYNONYM, KEY_REGEX, KEY_LOOKUP}

\* the name a block gives under its tag: "" or the name of the tag's group
NameOf(tag, name) ==
    IF name = "" THEN ""
    ELSE CASE tag = KEY_INTENT -> "greet"
           [] tag = KEY_SYNONYM -> "New York"
           [] tag = KEY_REGEX -> "zipcode"
           [] OTHER -> "city"

\* a dictionary with the key tag and no other key
BlockWithoutExamples(tag, name) ==
    [type |-> "dict", keys |-> <<tag>>,
     fields |-> [k \in {tag} |-> NameOf(tag, name)]]

\* a dictionary with the key tag followed by the key "examples"
Block(tag, name, examples) ==
    [type |-> "dict", keys |-> <<tag, "examples">>,
     fields |-> [k \in {tag, "examples"} |->
                    IF k = tag THEN NameOf(tag, name) ELSE examples]]

\* an item that is a plain string
PlainItem == [type |-> "str", keys |-> <<>>, fields |-> EmptyDict]

\* a dictionary whose only key is none of the four tags
UnknownKeyItem ==
    [type |-> "dict", keys |-> <<"responses">>,
     fields |-> [k \in {"responses"} |-> "utter_greet"]]

NluItems ==
    {PlainItem, UnknownKeyItem}
    \cup {BlockWithoutExamples(tag, name) :
            tag \in Tags, name \in {"", "name"}}
    \cup {Block(tag, name, examples) :
            tag \in Tags, name \in {"", "name"},
            examples \in ExamplesValues}

TopLevelKeys == {<<"version">>, <<"version", KEY_NLU>>}

----------------------------------------------------------------------------
(* The reader as a state machine *)

\* a validator on which validate is never called
ValidatorAtRest ==
    /\ graph_schema = <<>>
    /\ component_types = {}
    /\ policy_schema_nodes = <<>>
    /\ featurizers_compatible = TRUE
    /\ pc = "idle"
    /\ importer = <<>>
    /\ requested = <<>>
    /\ warnings = <<>>
    /\ error = "none"
    /\ result = <<>>

ReaderInit == ValidatorAtRest /\ ReaderAtRest /\ DetectorAtRest

\* mutant: reads without _initialize, the fields keep their list objects
ReadsWithoutInitialize ==
    /\ rpc = "idle"
    /\ yaml_keys' \in TopLevelKeys
    /\ nlu_data' = <<>>
    /\ reader_warnings' = <<>>
    /\ reader_error' = "none"
    /\ reader_result' = <<>>
    /\ rpc' = "reading"
    /\ UNCHANGED <<training_examples, entity_synonyms, regex_features,
                   lookup_tables, earlier>>
    /\ UNCHANGED <<vvars, dvars>>

\* reads(string) up to the loop over the document: _initialize, which binds
\* the four fields to new list objects, and read_yaml
Reads ==
    /\ rpc = "idle"
    /\ yaml_keys' \in TopLevelKeys
    /\ training_examples' = <<>>
    /\ entity_synonyms' = EmptyDict
    /\ regex_features' = <<>>
    /\ lookup_tables' = <<>>
    /\ nlu_data' = <<>>
    /\ reader_warnings' = <<>>
    /\ reader_error' = "none"
    /\ reader_result' = <<>>
    /\ earlier' = [i \in DOMAIN earlier |->
                       [earlier[i] EXCEPT !.shares = FALSE]]
    /\ rpc' = "reading"
    /\ UNCHANGED <<vvars, dvars>>

\* _parse_nlu: the next item of the "nlu" list
ParseNluItem ==
    /\ rpc = "reading"
    /\ KEY_NLU \in Range(yaml_keys)
    /\ Len(nlu_data) < MaxItems
    /\ \E nlu_item \in NluItems :
          LET after == parse_nlu_item(Fields, nlu_item)
          IN  /\ nlu_data' = Append(nlu_data, nlu_item)
              /\ training_examples' = after.training_examples
              /\ entity_synonyms' = after.entity_synonyms
              /\ regex_features' = after.regex_features
              /\ lookup_tables' = after.lookup_tables
              /\ reader_warnings' = after.warnings
              /\ reader_error' = after.error
              /\ rpc' = IF after.error # "none" THEN "raised" ELSE "reading"
    /\ UNCHANGED <<yaml_keys, reader_result, earlier>>
    /\ UNCHANGED <<vvars, dvars>>

\* the document is exhausted: reads returns the TrainingData
ReturnTrainingData ==
    /\ rpc = "reading"
    /\ reader_result' = <<TrainingData(training_examples, entity_synonyms,
                                       regex_features, lookup_tables)>>
    /\ rpc' = "returned"
    /\ UNCHANGED <<training_examples, entity_synonyms, regex_features,
                   lookup_tables, yaml_keys, nlu_data, reader_warnings,
                   reader_error, earlier>>
    /\ UNCHANGED <<vvars, dvars>>

\* the caller takes the outcome; the reader keeps its fields
ReaderDone ==
    /\ rpc \in {"returned", "raised"}
    /\ rpc' = "idle"
    /\ yaml_keys' = <<>>
    /\ nlu_data' = <<>>
    /\ reader_warnings' = <<>>
    /\ reader_error' = "none"
    /\ reader_result' = <<>>
    /\ earlier' = IF rpc = "returned"
                  THEN <<[filled |-> reader_result[1] # EmptyResult,
                          shares |-> TRUE]>>
                  ELSE earlier
    /\ UNCHANGED <<training_examples, entity_synonyms, regex_features,
                   lookup_tables>>
    /\ UNCHANGED <<vvars, dvars>>

ReaderNext ==
    \/ Reads
    \/ ParseNluItem
    \/ ReturnTrainingData
    \/ ReaderDone

SpecReader == ReaderInit /\ [][ReaderNext]_vars

----------------------------------------------------------------------------
(* RasaYAMLReader.is_yaml_nlu_file *)

\* rasa.data.YAML_FILE_EXTENSIONS, as filename.split(".")[-1] is matched
\* against it
YAML_FILE_EXTENSIONS == {"yml", "yaml"}

\* A file name is the sequence of the parts that filename.split(".") gives.
Filenames ==
    {<<"nlu", "yml">>, <<"data", "nlu", "yaml">>, <<"nlu", "md">>,
     <<"nlu", "json">>, <<"nlu", "yml", "bak">>, <<"config", "YML">>,
     <<"nlu">>, <<"yaml">>}

\* What io_utils.read_yaml_file gives for a file: a mapping with its keys, a
\* list with its (scalar) items, a string with its characters, a number or
\* None.
Mapping(keys) == [type |-> "dict", keys |-> keys, items |-> <<>>]

Sequence(items) == [type |-> "list", keys |-> {}, items |-> items]

Scalar(chars) == [type |-> "str", keys |-> {}, items |-> chars]

Number == [type |-> "int", keys |-> {}, items |-> <<>>]

None == [type |-> "none", keys |-> {}, items |-> <<>>]

YamlContents ==
    {Mapping({}), Mapping({"version"}), Mapping({"version", KEY_NLU}),
     Mapping({KEY_NLU}), Mapping({"stories"}),
     Sequence(<<KEY_NLU>>), Sequence(<<"stories", "rules">>), Sequence(<<>>),
     Scalar(<<"n", "l", "u">>), Scalar(<<"a", "n", "l", "u", "b">>),
     Scalar(<<"n", "o">>),
     Number, None}

\* a file that can be read and parsed, or one for which read_yaml_file raises
Files ==
    [filename : Filenames, readable : {TRUE}, content : YamlContents]
    \cup [filename : Filenames, readable : {FALSE}, content : {None}]

\* KEY_NLU in content: "True", "False", or the exception of the operator
key_nlu_in(content) ==
    LET word == <<"n", "l", "u">>
        chars == content.items
    IN  CASE content.type = "dict" ->
               IF KEY_NLU \in content.keys THEN "True" ELSE "False"
          [] content.type = "list" ->
               IF \E i \in DOMAIN content.items : content.items[i] = KEY_NLU
               THEN "True" ELSE "False"
          [] content.type = "str" ->
               IF \E i \in 1..(Len(chars) - Len(word) + 1) :
                      SubSeq(chars, i, i + Len(word) - 1) = word
               THEN "True" ELSE "False"
          [] OTHER -> "TypeError"

\* is_yaml_nlu_file(filename), on the file the name stands for
is_yaml_nlu_file(f) ==
    IF f.filename[Len(f.filename)] \notin YAML_FILE_EXTENSIONS
    THEN [result |-> FALSE, file_read |-> FALSE, logged |-> FALSE,
          error |-> "none"]
    ELSE IF ~f.readable
    THEN [result |-> FALSE, file_read |-> TRUE, logged |-> TRUE,
          error |-> "none"]
    ELSE IF key_nlu_in(f.content) = "True"
    THEN [result |-> TRUE, file_read |-> TRUE, logged |-> FALSE,
          error |-> "none"]
    ELSE [result |-> FALSE, file_read |-> TRUE,
          logged |-> (key_nlu_in(f.content) = "TypeError"),
          error |-> "none"]

\* a call of is_yaml_nlu_file
IsYamlNluFile ==
    /\ dpc = "idle"
    /\ \E f \in Files :
          LET call == is_yaml_nlu_file(f)
          IN  /\ file' = <<f>>
              /\ file_read' = call.file_read
              /\ logged' = call.logged
              /\ detect_error' = call.error
              /\ detect_result' = <<call.result>>
    /\ dpc' = "done"
    /\ UNCHANGED <<vvars, rvars>>

\* the caller takes the value
DetectorDone ==
    /\ dpc = "done"
    /\ dpc' = "idle"
    /\ file' = <<>>
    /\ file_read' = FALSE
    /\ logged' = FALSE
    /\ detect_error' = "none"
    /\ detect_result' = <<>>
    /\ UNCHANGED <<vvars, rvars>>

DetectorInit == ValidatorAtRest /\ ReaderAtRest /\ DetectorAtRest

DetectorNext == IsYamlNluFile \/ DetectorDone

SpecDetector == DetectorInit /\ [][DetectorNext]_vars

----------------------------------------------------------------------------
(* Claims about RasaYAMLReader *)

\* the step that parses one more item of the "nlu" list
ParsesAnItem == Len(nlu_data') = Len(nlu_data) + 1

\* the item parsed last
Parsed == nlu_data[Len(nlu_data)]

IsBlock(item) ==
    item.type = "dict" /\ item.keys # <<>> /\ item.keys[1] \in Tags

TagOf(item) == item.keys[1]

NameIn(item) == item.fields[TagOf(item)]

HasExamples(item) == "examples" \in DOMAIN item.fields

\* the examples are of the type the tag's parser takes: a string, or under
\* an intent a list of dictionaries
ExamplesOfTheRightType(item) ==
    LET examples == item.fields["examples"]
    IN  \/ IsStr(examples)
        \/ /\ TagOf(item) = KEY_INTENT
           /\ IsList(examples)
           /\ \A i \in DOMAIN examples.items : examples.items[i].type = "dict"

Malformed(item) ==
    \/ ~IsBlock(item)
    \/ NameIn(item) = ""
    \/ ~HasExamples(item)
    \/ ~ExamplesOfTheRightType(item)

\* the advisories the last step emitted
Emitted ==
    SubSeq(reader_warnings', Len(reader_warnings) + 1, Len(reader_warnings'))

ListsUnchanged ==
    UNCHANGED <<training_examples, entity_synonyms, regex_features,
                lookup_tables>>

\* the number of lines of a text
LineCount(text) ==
    Cardinality({i \in DOMAIN text : text[i] = NewLine})
    + (IF text # <<>> /\ text[Len(text)] # NewLine THEN 1 ELSE 0)

HasMarkup(text) == \E i \in DOMAIN text : text[i] \in DOMAIN Annotations

GreetBlock == Block(KEY_INTENT, "name", Str(TwoLines))

\* C7: no malformed item of the "nlu" list makes reads fail: whether the item
\* is not a dictionary, has an unknown key, an empty name, no examples or
\* examples of the wrong type, parsing it raises nothing, adds no entry,
\* emits an advisory, and parsing goes on with the next item.
C7_MalformedBlocksAreSkippedWithAnAdvisory ==
    [][ParsesAnItem /\ Malformed(Parsed')
          => /\ rpc' = "reading"
             /\ reader_error' = "none"
             /\ ListsUnchanged
             /\ Len(Emitted) >= 1]_vars

\* C8: a block of any of the four kinds that has an empty name, or that has
\* no examples, adds no entry, emits exactly one advisory about that absence,
\* and raises nothing.
C8_OneAdvisoryForAMissingNameOrMissingExamples ==
    [][ParsesAnItem /\ IsBlock(Parsed')
          /\ (NameIn(Parsed') = "" \/ ~HasExamples(Parsed'))
          => /\ rpc' = "reading"
             /\ reader_error' = "none"
             /\ ListsUnchanged
             /\ Len(SelectSeq(Emitted,
                              LAMBDA w : /\ w.kind \in {"empty_name",
                                                        "no_examples"}
                                         /\ w.about = TagOf(Parsed'))) = 1]_vars

\* C9: parsing a synonym block with an empty name leaves the synonym mapping
\* as it was before the block and emits the advisory about the empty name,
\* whatever the block has under "examples".
C9_EmptySynonymNameAddsNothing ==
    [][ParsesAnItem /\ IsBlock(Parsed') /\ TagOf(Parsed') = KEY_SYNONYM
          /\ NameIn(Parsed') = ""
          => /\ entity_synonyms' = entity_synonyms
             /\ \E i \in DOMAIN Emitted :
                   Emitted[i] = ReaderWarning("empty_name", KEY_SYNONYM)
             /\ rpc' = "reading"]_vars

\* a named synonym block has filled the mapping, then a synonym block with an
\* empty name and a text under "examples" was parsed, and the mapping holds
\* the entries of the first block only
C9_Witness ==
    /\ rpc = "reading"
    /\ Len(nlu_data) = 2
    /\ nlu_data[1] = Block(KEY_SYNONYM, "name", Str(TwoLines))
    /\ nlu_data[2] = Block(KEY_SYNONYM, "", Str(MarkedLine))
    /\ DOMAIN entity_synonyms = {<<"- hello">>, <<"- hi">>}
    /\ \E i \in DOMAIN reader_warnings :
          reader_warnings[i] = ReaderWarning("empty_name", KEY_SYNONYM)

\* C10: parsing an intent block with a non-empty name and a string of n lines
\* without entity markup appends exactly n training examples, each labelled
\* with the intent and without entities; reading the document whose only
\* block is intent greet with the lines "- hello" and "- hi" returns two
\* examples labelled greet and no entity.
C10_OneExamplePerLine ==
    /\ [][ParsesAnItem /\ IsBlock(Parsed') /\ TagOf(Parsed') = KEY_INTENT
            /\ NameIn(Parsed') # "" /\ HasExamples(Parsed')
            /\ IsStr(Parsed'.fields["examples"])
            /\ ~HasMarkup(Parsed'.fields["examples"].text)
            => LET n == LineCount(Parsed'.fields["examples"].text)
               IN  /\ Len(training_examples') = Len(training_examples) + n
                   /\ SubSeq(training_examples', 1, Len(training_examples))
                          = training_examples
                   /\ \A i \in DOMAIN training_examples' :
                         i > Len(training_examples)
                             => /\ training_examples'[i].intent
                                       = NameIn(Parsed')
                                /\ training_examples'[i].entities = <<>>
                   /\ rpc' = "reading"]_vars
    /\ [](rpc = "returned" /\ nlu_data = <<GreetBlock>>
            => /\ Len(reader_result[1].training_examples) = 2
               /\ \A i \in {1, 2} :
                     /\ reader_result[1].training_examples[i].intent = "greet"
                     /\ reader_result[1].training_examples[i].entities = <<>>)

\* reads has returned the training data of the document whose only block is
\* intent greet with two lines: two examples labelled greet
C10_Witness ==
    /\ rpc = "returned"
    /\ nlu_data = <<GreetBlock>>
    /\ Len(reader_result[1].training_examples) = 2
    /\ reader_result[1].training_examples[1].intent = "greet"
    /\ reader_result[1].training_examples[2].text = <<"- hi">>

\* the extension of a file name: what follows its last dot
Extension(filename) == filename[Len(filename)]

\* C11: is_yaml_nlu_file never raises; it returns true exactly when the
\* extension is a YAML extension, the file is read successfully and its
\* top-level content is a mapping with the key "nlu"; and it does not read a
\* file whose extension is not a YAML extension.
C11_TrueExactlyForYamlMappingsWithNluKey ==
    dpc = "done"
        => /\ detect_error = "none"
           /\ detect_result[1]
                 = (/\ Extension(file[1].filename) \in {"yml", "yaml"}
                    /\ file[1].readable
                    /\ file[1].content.type = "dict"
                    /\ KEY_NLU \in file[1].content.keys)
           /\ (Extension(file[1].filename) \notin {"yml", "yaml"}
                  => ~file_read)

----------------------------------------------------------------------------
(* Claims about the passes of DefaultV1RecipeValidator.validate *)

\* the advisories only the core pass emits, and those only the NLU pass emits
CoreKinds ==
    {"data_but_no_policy", "no_rule_policy", "same_priority",
     "rule_policy_without_rule_data", "rule_data_without_rule_policy"}

CoreWarnings == SelectSeq(warnings, LAMBDA w : w.kind \in CoreKinds)

NluWarnings == SelectSeq(warnings, LAMBDA w : w.kind \notin CoreKinds)

\* the call that ended got as far as the core pass
CorePassRan == pc = "done" /\ error # "InvalidConfigException"

StorySteps == TheImporter.stories.story_steps

\* C12: with no policy node in the schema the core pass emits the advisory
\* about data for training policies without a policy exactly when the story
\* graph has a story step, emits no other advisory and raises nothing,
\* whatever the domain contains.
C12_NoPolicyNodeStopsTheCorePass ==
    CorePassRan /\ ~HasPolicyNode
        => /\ error = "none"
           /\ result = importer
           /\ CoreWarnings =
                 IF Len(StorySteps) > 0
                 THEN <<Warning("data_but_no_policy")>> ELSE <<>>

\* no policy node, story and rule steps, a domain with forms that no rule
\* policy could handle: one advisory and a normal return
C12_Witness ==
    /\ CorePassRan
    /\ ~HasPolicyNode
    /\ \E i \in DOMAIN StorySteps : StorySteps[i].is_rule
    /\ DomainHasForms
    /\ ~TheImporter.domain.rule_policy_compatible
    /\ CoreWarnings = <<Warning("data_but_no_policy")>>
    /\ error = "none"

\* C of claim C13: some policy node's type supports rule data
SomePolicyConsumesRuleData ==
    \E i \in PolicyNodes :
        supported_data(graph_schema[i].uses)
            \in {"RULE_DATA", "ML_AND_RULE_DATA"}

\* R of claim C13: the ordered steps of the story graph contain a rule step
StoryGraphHasRuleStep ==
    \E i \in DOMAIN ordered_steps(TheImporter.stories) :
        ordered_steps(TheImporter.stories)[i].is_rule

\* the two advisories are emitted as the mismatch of C and R says
RuleDataAdvisoriesFollowTheMismatch ==
    /\ Count(warnings, "rule_policy_without_rule_data")
          = (IF SomePolicyConsumesRuleData /\ ~StoryGraphHasRuleStep
             THEN 1 ELSE 0)
    /\ Count(warnings, "rule_data_without_rule_policy")
          = (IF StoryGraphHasRuleStep /\ ~SomePolicyConsumesRuleData
             THEN 1 ELSE 0)

\* C13 as stated: whenever the core pass runs with at least one policy node,
\* the advisory about a rule policy without rule data is emitted exactly when
\* C and not R, the advisory about rule data without a rule-consuming policy
\* exactly when R and not C.
C13_RuleDataAdvisoriesWheneverCorePassRuns ==
    CorePassRan /\ HasPolicyNode => RuleDataAdvisoriesFollowTheMismatch

\* C13: whenever the core pass runs with at least one policy node and does
\* not end in the domain error, the advisory about a rule policy without rule
\* data is emitted exactly when C and not R, the advisory about rule data
\* without a rule-consuming policy exactly when R and not C, never both; a
\* core pass that ends in the domain error has emitted neither.
C13_RuleDataAdvisoriesUnlessDomainError ==
    CorePassRan /\ HasPolicyNode
        => /\ error = "none" => RuleDataAdvisoriesFollowTheMismatch
           /\ error # "none"
                 => /\ Count(warnings, "rule_policy_without_rule_data") = 0
                    /\ Count(warnings, "rule_data_without_rule_policy") = 0
           /\ Count(warnings, "rule_policy_without_rule_data")
                 + Count(warnings, "rule_data_without_rule_policy") <= 1

\* a policy that does not consume rule data, a story graph with a rule step:
\* the advisory about unused rule data, and not the other one
C13_Witness ==
    /\ CorePassRan
    /\ HasPolicyNode
    /\ error = "none"
    /\ StoryGraphHasRuleStep
    /\ ~SomePolicyConsumesRuleData
    /\ Count(warnings, "rule_data_without_rule_policy") = 1
    /\ Count(warnings, "rule_policy_without_rule_data") = 0

\* the component types of the schema's nodes
SchemaTypes == {graph_schema[i].uses : i \in DOMAIN graph_schema}

\* the categories of training data: the advisory about unused data of the
\* category, whether the data of the call has it, and the component types
\* that consume it
Categories ==
    {[advisory |-> "unused_response_examples",
      populated |-> TheImporter.nlu_data.response_examples # <<>>,
      consumers |-> {"ResponseSelector"}],
     [advisory |-> "unused_entity_examples",
      populated |-> TheImporter.nlu_data.entity_examples # <<>>,
      consumers |-> {"MitieEntityExtractor", "CRFEntityExtractor",
                     "DIETClassifier"}],
     [advisory |-> "unused_entity_roles_groups",
      populated |->
          \E i \in DOMAIN TheImporter.nlu_data.entity_examples :
              TheImporter.nlu_data.entity_examples[i].role # "",
      consumers |-> {"DIETClassifier", "CRFEntityExtractor"}],
     [advisory |-> "unused_regex_features",
      populated |-> TheImporter.nlu_data.regex_features # <<>>,
      consumers |-> {"RegexFeaturizer", "RegexEntityExtractor"}],
     [advisory |-> "unused_lookup_tables",
      populated |-> TheImporter.nlu_data.lookup_tables # <<>>,
      consumers |-> {"RegexFeaturizer", "RegexEntityExtractor"}],
     [advisory |-> "unused_entity_synonyms",
      populated |-> DOMAIN TheImporter.nlu_data.entity_synonyms # {},
      consumers |-> {"EntitySynonymMapper"}]}

\* every category's advisory is emitted once if the category is populated
\* and has no consumer in the schema, and not at all otherwise
UnusedDataAdvisoriesFollowTheCategories ==
    \A c \in Categories :
        Count(warnings, c.advisory)
            = (IF c.populated /\ SchemaTypes \cap c.consumers = {}
               THEN 1 ELSE 0)

\* C14 as stated: in every call of validate, each category's advisory about
\* unused data is emitted exactly when the category is populated and the
\* schema has none of its consuming component types.
C14_UnusedDataAdvisoriesInEveryRun ==
    pc = "done" => UnusedDataAdvisoriesFollowTheCategories

\* C14: in every call of validate whose NLU pass does not end in the
\* configuration error, each category's advisory about unused data is
\* emitted exactly when the category is populated and the schema has none of
\* its consuming component types, and at most once; an empty category never
\* produces its advisory; a call that ends in the configuration error emits
\* none of them.
C14_UnusedDataAdvisoriesUnlessConfigError ==
    pc = "done"
        => /\ error # "InvalidConfigException"
                 => UnusedDataAdvisoriesFollowTheCategories
           /\ error = "InvalidConfigException"
                 => \A c \in Categories : Count(warnings, c.advisory) = 0
           /\ \A c \in Categories :
                 ~c.populated => Count(warnings, c.advisory) = 0

\* entity examples with a role and the MITIE extractor as the only
\* extractor: the entity examples are used, the roles are not
C14_Witness ==
    /\ pc = "done"
    /\ error = "none"
    /\ "MitieEntityExtractor" \in SchemaTypes
    /\ \E i \in DOMAIN TheImporter.nlu_data.entity_examples :
          TheImporter.nlu_data.entity_examples[i].role # ""
    /\ Count(warnings, "unused_entity_roles_groups") = 1
    /\ Count(warnings, "unused_entity_examples") = 0
    /\ Count(warnings, "unused_entity_synonyms") = 1

\* the three conditions of the regex-competition advisory
RegexCompetition ==
    /\ "RegexEntityExtractor" \in SchemaTypes
    /\ ConfiguredTrainableExtractors # {}
    /\ ConflictingLabels # {}

\* C15 as stated: in every call of validate the regex-competition advisory
\* is emitted exactly when the schema has the regex entity extractor and a
\* trainable extractor and some annotated entity label is the name of a
\* regex feature.
C15_RegexCompetitionAdvisoryInEveryRun ==
    pc = "done"
        => Count(warnings, "regex_competition")
              = (IF RegexCompetition THEN 1 ELSE 0)

\* C15: in every call of validate whose NLU pass does not end in the
\* configuration error, the regex-competition advisory is emitted (once,
\* naming the shared labels) exactly when the schema has the regex entity
\* extractor and a trainable extractor and some annotated entity label is
\* the name of a regex feature; a call that ends in the configuration error
\* does not emit it.
C15_RegexCompetitionAdvisoryUnlessConfigError ==
    pc = "done"
        => /\ error # "InvalidConfigException"
                 => /\ Count(warnings, "regex_competition")
                          = (IF RegexCompetition THEN 1 ELSE 0)
                    /\ \A i \in DOMAIN warnings :
                          warnings[i].kind = "regex_competition"
                              => warnings[i].labels = ConflictingLabels
           /\ error = "InvalidConfigException"
                 => Count(warnings, "regex_competition") = 0

\* the regex entity extractor next to a trainable extractor, and the label
\* city both annotated and the name of a regex feature
C15_Witness ==
    /\ pc = "done"
    /\ error = "none"
    /\ RegexCompetition
    /\ ConflictingLabels = {"city"}
    /\ Count(warnings, "regex_competition") = 1

\* the nodes of the schema that are trainable entity extractors
TrainableExtractorNodes ==
    {i \in DOMAIN graph_schema :
        graph_schema[i].uses \in {"MitieEntityExtractor",
                                  "CRFEntityExtractor", "DIETClassifier"}}

\* C16 as stated: the competing-extractors advisory is emitted whenever the
\* schema has two or more trainable entity extractor nodes, two nodes of the
\* same type included, and is not emitted when it has fewer than two.
C16_AdvisoryForTwoExtractorNodes ==
    pc = "done"
        => Count(warnings, "competing_extractors")
              = (IF Cardinality(TrainableExtractorNodes) >= 2
                 THEN 1 ELSE 0)

\* C16: in a call of validate whose NLU pass does not end in the
\* configuration error, the competing-extractors advisory is emitted, once
\* and naming the types, exactly when the nodes of the schema have two or
\* more distinct trainable entity extractor types; several nodes of one
\* type alone do not cause it, and a call that ends in the configuration
\* error does not emit it.
C16_AdvisoryForTwoExtractorTypes ==
    pc = "done"
        => /\ error # "InvalidConfigException"
                 => /\ Count(warnings, "competing_extractors")
                          = (IF Cardinality(ConfiguredTrainableExtractors)
                                    >= 2
                             THEN 1 ELSE 0)
                    /\ \A i \in DOMAIN warnings :
                          warnings[i].kind = "competing_extractors"
                              => warnings[i].typeset
                                    = ConfiguredTrainableExtractors
           /\ error = "InvalidConfigException"
                 => Count(warnings, "competing_extractors") = 0

\* three extractor nodes of two types: one advisory, naming the two types
C16_Witness ==
    /\ pc = "done"
    /\ error = "none"
    /\ Cardinality(TrainableExtractorNodes) = 3
    /\ ConfiguredTrainableExtractors
          = {"CRFEntityExtractor", "DIETClassifier"}
    /\ Count(warnings, "competing_extractors") = 1

\* the nodes of the schema whose type is a policy, in the order of the schema
PolicyNodesOfTheSchema ==
    [k \in 1..Cardinality(PolicyNodes) |->
        graph_schema[CHOOSE i \in PolicyNodes :
                        Cardinality({j \in PolicyNodes : j <= i}) = k]]

\* C17: the validator's component-type set is the set of the distinct types
\* of the schema's nodes and its policy-node list is the list of the
\* schema's nodes whose type is a policy, so that every policy node's type
\* is in the component-type set; and no step, whether a call of validate
\* returns or raises, changes the schema, the set or the list.
C17_ConstructedOnceNeverMutated ==
    /\ [](/\ component_types = SchemaTypes
          /\ policy_schema_nodes = PolicyNodesOfTheSchema
          /\ \A i \in DOMAIN policy_schema_nodes :
                policy_schema_nodes[i].uses \in component_types)
    /\ [][UNCHANGED <<graph_schema, component_types,
                      policy_schema_nodes>>]_vars

\* a call of validate has raised the domain error on a validator with two
\* policy nodes among three nodes of three types
C17_Witness ==
    /\ pc = "done"
    /\ error = "InvalidDomain"
    /\ Len(graph_schema) = 3
    /\ Cardinality(component_types) = 3
    /\ Len(policy_schema_nodes) = 2
    /\ policy_schema_nodes = PolicyNodesOfTheSchema

\* C18: whenever the core pass runs with at least one policy node and no
\* rule policy node, the advisory that default intents will not trigger
\* their default actions is emitted, as the first advisory of the core pass;
\* in particular every call that ends in the domain error for forms without
\* a rule policy has emitted it before.
C18_NoRulePolicyAdvisoryBeforeTheDomainError ==
    /\ CorePassRan /\ HasPolicyNode /\ ~HasRulePolicyNode
          => /\ Count(warnings, "no_rule_policy") = 1
             /\ CoreWarnings[1] = Warning("no_rule_policy")
    /\ CorePassRan /\ HasRulePolicyNode
          => Count(warnings, "no_rule_policy") = 0
    /\ pc = "done" /\ error = "InvalidDomain" /\ ~HasRulePolicyNode
          => /\ DomainHasForms
             /\ HasPolicyNode
             /\ warnings # <<>>
             /\ warnings[Len(warnings)] = Warning("no_rule_policy")

\* a call on a schema with a TED policy and a domain with forms has ended in
\* the domain error, after the advisory
C18_Witness ==
    /\ pc = "done"
    /\ error = "InvalidDomain"
    /\ HasPolicyNode
    /\ ~HasRulePolicyNode
    /\ DomainHasForms
    /\ Len(StorySteps) > 0
    /\ warnings[Len(warnings)] = Warning("no_rule_policy")

\* C19: in every call of validate the NLU pass is over before the core pass
\* starts: a call that ends in the configuration error has emitted no
\* advisory and has asked the importer for the NLU data only, not for the
\* story graph or the domain; a call that gets further asks for the story
\* graph and the domain after the NLU data; and no advisory of the core pass
\* precedes an advisory of the NLU pass.
C19_NluPassBeforeCorePass ==
    pc = "done"
        => /\ error = "InvalidConfigException"
                 => /\ warnings = <<>>
                    /\ requested = <<"get_nlu_data">>
                    /\ result = <<>>
           /\ error # "InvalidConfigException"
                 => requested = <<"get_nlu_data", "get_stories", "get_domain">>
           /\ \A i, j \in DOMAIN warnings :
                 warnings[i].kind \in CoreKinds /\ i < j
                     => warnings[j].kind \in CoreKinds
           /\ warnings = NluWarnings \o CoreWarnings

\* a call with two tokenizers, training data that no component consumes and
\* story data without a policy has raised the configuration error without
\* any advisory
C19_Witness ==
    /\ pc = "done"
    /\ error = "InvalidConfigException"
    /\ TokenizerNodeCount > 1
    /\ TheImporter.nlu_data = FullTrainingData
    /\ Len(StorySteps) > 0
    /\ ~HasPolicyNode
    /\ warnings = <<>>
    /\ requested = <<"get_nlu_data">>

----------------------------------------------------------------------------
(* Claims about the advisories of RasaYAMLReader *)

\* a dictionary with one of the four tags, a non-empty name and non-empty
\* examples of the type the tag's parser takes
WellFormed(item) ==
    /\ IsBlock(item)
    /\ Cardinality({i \in DOMAIN item.keys : item.keys[i] \in Tags}) = 1
    /\ NameIn(item) # ""
    /\ HasExamples(item)
    /\ IsTruthy(item.fields["examples"])
    /\ ExamplesOfTheRightType(item)

\* the block given once to the parser of its tag
DispatchedOnce(self, item) ==
    CASE TagOf(item) = KEY_INTENT -> parse_intent(self, item.fields)
      [] TagOf(item) = KEY_SYNONYM -> parse_synonym(self, item.fields)
      [] TagOf(item) = KEY_REGEX -> parse_regex(self, item.fields)
      [] TagOf(item) = KEY_LOOKUP -> parse_lookup(self, item.fields)

\* C20: parsing a well-formed block emits no advisory and gives the block to
\* the parser of its tag exactly once: the reader's lists after the block
\* are what that parser makes of them.
C20_WellFormedBlocksEmitNoAdvisory ==
    [][ParsesAnItem /\ WellFormed(Parsed')
          => /\ Emitted = <<>>
             /\ rpc' = "reading"
             /\ LET once == DispatchedOnce(Fields, Parsed')
                IN  /\ training_examples' = once.training_examples
                    /\ entity_synonyms' = once.entity_synonyms
                    /\ regex_features' = once.regex_features
                    /\ lookup_tables' = once.lookup_tables]_vars

\* a reader whose four fields were just bound to new, empty lists
FreshFields ==
    [training_examples |-> <<>>, entity_synonyms |-> EmptyDict,
     regex_features |-> <<>>, lookup_tables |-> <<>>,
     warnings |-> <<>>, error |-> "none"]

\* the items of a document parsed one after the other
RECURSIVE ParseAll(_, _)
ParseAll(self, items) ==
    IF items = <<>> THEN self
    ELSE ParseAll(parse_nlu_item(self, Head(items)), Tail(items))

\* the training data of the items of one document, and of nothing else
OfDocument(items) ==
    LET parsed == ParseAll(FreshFields, items)
    IN  TrainingData(parsed.training_examples, parsed.entity_synonyms,
                     parsed.regex_features, parsed.lookup_tables)

\* what the reader's four fields hold
HeldByTheReader ==
    TrainingData(training_examples, entity_synonyms, regex_features,
                 lookup_tables)

\* C21: over any sequence of reads calls on one reader, what a call has
\* parsed and what it returns are the examples, synonyms, regex features and
\* lookup tables of the items of its own document only; and while the
\* training data a caller holds from an earlier call shares its lists with
\* the reader's fields, no step changes these lists, so that a later call
\* does not change it.
C21_EachCallReturnsItsOwnDocumentOnly ==
    /\ [](rpc \in {"reading", "returned", "raised"}
             => HeldByTheReader = OfDocument(nlu_data))
    /\ [](rpc = "returned" => reader_result[1] = OfDocument(nlu_data))
    /\ [](rpc \in {"reading", "returned", "raised"}
             => \A i \in DOMAIN earlier : ~earlier[i].shares)
    /\ [][(/\ earlier # <<>> /\ earlier' # <<>>
           /\ earlier[1].shares /\ earlier'[1].shares)
              => ListsUnchanged]_vars

\* a caller holds training data with entries from an earlier call, and a
\* later call on the document whose only block is intent greet has returned
\* the two examples of that document only
C21_Witness ==
    /\ rpc = "returned"
    /\ earlier # <<>>
    /\ earlier[1].filled
    /\ ~earlier[1].shares
    /\ nlu_data = <<GreetBlock>>
    /\ Len(reader_result[1].training_examples) = 2
    /\ reader_result[1].regex_features = <<>>

====
